---------------------------- MODULE Spec2Model ----------------------------
(***************************************************************************)
(* A model of scripts/update_calendar.py: the Source Lister                *)
(* (get_csv_urls), the Normalizer (convert_csv_to_json), the Derivers      *)
(* (generate_holidays_only, generate_workdays, translate_to_english), the  *)
(* Writer (save_json) and the Orchestrator (process_year, main).           *)
(*                                                                         *)
(* Strings.  A Python str is modelled as the sequence of its code points,  *)
(* one token per code point, so that len, replace, strip, `in` and the     *)
(* regular expression of get_csv_urls are computed on characters.  TLA+    *)
(* string literals are ASCII, so a CJK character is written as a           *)
(* transliterated token:                                                   *)
(*   年 nian_year   念 nian_recall  日 ri      開 kai     國 guo           *)
(*   紀 ji_record   及 ji_and       暨 ji_with 補 bu      假 jia           *)
(*   小 xiao        夜 ye           農 nong    曆 li      除 chu           *)
(*   夕 xi          春 chun         節 jie_festival       捷 jie_victory   *)
(*   調 tiao        整 zheng        上 shang   班 ban     行 xing_go       *)
(*   性 xing_nature 放 fang         和 he      平 ping    兒 er_child      *)
(*   童 tong        民 min          族 zu      掃 sao     墓 mu            *)
(*   端 duan        午 wu_noon      中 zhong   秋 qiu     慶 qing          *)
(*   彈 tan         孔 kong         子 zi      誕 dan     辰 chen          *)
(*   臺 tai         灣 wan          光 guang   復 fu      金 jin           *)
(*   門 men         古 gu           寧 ning    頭 tou     大 da            *)
(*   憲 xian        軍 jun          人 ren     是 shi     否 fou           *)
(*   一 yi  二 er_two  三 san  四 si  五 wu_five  六 liu                   *)
(* An English phrase of a lookup table's values is one token (the code     *)
(* only copies and compares these values whole).  The CSV column names     *)
(* are dictionary keys, never inspected by character, and are atoms:       *)
(*   西元日期 "xiyuan_riqi"   星期 "xingqi"                                *)
(*   是否放假 "shifou_fangjia" 備註 "beizhu"                               *)
(***************************************************************************)
EXTENDS Integers, Sequences, FiniteSets, TLC

VARIABLES
    pc,             \* position of the run
    distributions,  \* result.distribution of the metadata API's answer
    csv_urls,       \* main: the mapping year -> url returned by get_csv_urls
    years,          \* main: what is left of sorted(csv_urls.keys())
    year,           \* main: the loop variable
    csv_content,    \* the decoded CSV handed to convert_csv_to_json
    json_data,      \* process_year: the Year Dataset
    holidays_only,  \* process_year: generate_holidays_only(json_data)
    en_data,        \* process_year: translate_to_english(json_data)
    step,           \* process_year: the next of its five save_json calls
    files,          \* the output directory: path -> content
    disk0,          \* history: the output directory when the run started
    writes,         \* history: the paths save_json opened, in order
    attempted,      \* history: the years whose loop body was entered, in order
    log             \* history: the diagnostics printed, <<year, stage>>

vars == <<pc, distributions, csv_urls, years, year, csv_content, json_data,
          holidays_only, en_data, step, files, disk0, writes, attempted, log>>

-----------------------------------------------------------------------------
(* Python str operations, on sequences of code points.                     *)

\* Python's None (a short CSV row's missing fields, csv.DictReader's restval).
None == <<"NoneType">>

\* str(x): the text "None" for None, x itself for a str.
str(x) == IF x = None THEN <<"N", "o", "n", "e">> ELSE x

\* s.replace(ch, "") for a one-character ch.
replace(s, ch) == SelectSeq(s, LAMBDA c : c # ch)

\* The characters str.strip() removes (str.isspace).
Whitespace == {" ", "\t", "\n", "\r"}

RECURSIVE lstrip(_)
lstrip(s) ==
    IF s # <<>> /\ Head(s) \in Whitespace THEN lstrip(Tail(s)) ELSE s

RECURSIVE rstrip(_)
rstrip(s) ==
    IF s # <<>> /\ s[Len(s)] \in Whitespace
    THEN rstrip(SubSeq(s, 1, Len(s) - 1))
    ELSE s

\* s.strip()
strip(s) == rstrip(lstrip(s))

\* sub in s
Contains(sub, s) ==
    \E i \in 1..(Len(s) - Len(sub) + 1) : SubSeq(s, i, i + Len(sub) - 1) = sub

\* dict.get(key, default) on a dict modelled as a function.
Get(d, key, default) == IF key \in DOMAIN d THEN d[key] ELSE default


-----------------------------------------------------------------------------
(* The Normalizer: convert_csv_to_json.                                    *)

\* len(date_str) != 8
DateLen == 8

\* 星期對應表
WEEK_MAP ==
    (<<"0">> :> <<"ri">>) @@ (<<"1">> :> <<"yi">>) @@ (<<"2">> :> <<"er_two">>)
    @@ (<<"3">> :> <<"san">>) @@ (<<"4">> :> <<"si">>)
    @@ (<<"5">> :> <<"wu_five">>) @@ (<<"6">> :> <<"liu">>)
    @@ (<<"ri">> :> <<"ri">>) @@ (<<"yi">> :> <<"yi">>)
    @@ (<<"er_two">> :> <<"er_two">>) @@ (<<"san">> :> <<"san">>)
    @@ (<<"si">> :> <<"si">>) @@ (<<"wu_five">> :> <<"wu_five">>)
    @@ (<<"liu">> :> <<"liu">>)

\* csv.DictReader: the first line names the columns; each later line that
\* is not blank becomes a dict from column name to field, a column named
\* twice keeping its last field and a column the line is too short for
\* getting None.
DictRow(header, line) ==
    [name \in {header[j] : j \in 1..Len(header)} |->
        LET j == CHOOSE m \in 1..Len(header) :
                    /\ header[m] = name
                    /\ \A n \in 1..Len(header) : header[n] = name => n <= m
        IN  IF j <= Len(line) THEN line[j] ELSE None]

RECURSIVE DictReader(_, _)
DictReader(header, lines) ==
    IF lines = <<>> THEN <<>>
    ELSE IF Head(lines) = <<>> THEN DictReader(header, Tail(lines))
    ELSE <<DictRow(header, Head(lines))>> \o DictReader(header, Tail(lines))

\* The four fields of a row, under either header naming scheme.
date_value(row) == Get(row, "xiyuan_riqi", Get(row, "date", <<>>))
week_value(row) == Get(row, "xingqi", Get(row, "week", <<>>))
holiday_value(row) == Get(row, "shifou_fangjia", Get(row, "isHoliday", <<>>))
desc_value(row) == Get(row, "beizhu", Get(row, "description", <<>>))

\* date_str with the second replace forgotten.
date_str_keeps_dash(row) == replace(str(date_value(row)), "/")

\* date_str = str(date_value).replace("/", "").replace("-", "")
date_str(row) == replace(replace(str(date_value(row)), "/"), "-")

\* The rows the loop does not skip.
date_ok(row) == Len(date_str(row)) = DateLen

\* is_holiday with "1" missing from the first list.
is_holiday_without_one(holiday_str) ==
    holiday_str \in {<<"2">>, <<"shi">>, <<"t", "r", "u", "e">>,
                     <<"T", "r", "u", "e">>}

\* The holiday flag of a stripped field.
is_holiday(holiday_str) ==
    IF holiday_str \in {<<"2">>, <<"shi">>, <<"t", "r", "u", "e">>,
                        <<"T", "r", "u", "e">>, <<"1">>}
    THEN TRUE
    ELSE IF holiday_str \in {<<"0">>, <<"fou">>, <<"f", "a", "l", "s", "e">>,
                             <<"F", "a", "l", "s", "e">>}
    THEN FALSE
    ELSE holiday_str = <<"2">>

\* description = str(desc_value).strip() if desc_value else ""
description_of(row) ==
    IF desc_value(row) = None \/ desc_value(row) = <<>>
    THEN <<>>
    ELSE strip(str(desc_value(row)))

\* The record appended for a row that is kept.
record_of(row) ==
    [date |-> date_str(row),
     week |-> Get(WEEK_MAP, strip(str(week_value(row))), week_value(row)),
     isHoliday |-> is_holiday(strip(str(holiday_value(row)))),
     description |-> description_of(row)]

RECURSIVE convert_rows(_)
convert_rows(reader) ==
    IF reader = <<>> THEN <<>>
    ELSE IF ~date_ok(Head(reader)) THEN convert_rows(Tail(reader))
    ELSE <<record_of(Head(reader))>> \o convert_rows(Tail(reader))

convert_csv_to_json(content) ==
    convert_rows(DictReader(content.header, content.lines))

-----------------------------------------------------------------------------
(* The Derivers.                                                           *)

\* 節日中英對照表, in the table's own order.
HOLIDAY_EN_MAP == <<
    <<(* 開國紀念日 *) <<"kai", "guo", "ji_record", "nian_recall", "ri">>,
      <<"New Year's Day">>>>,
    <<(* 補假 *) <<"bu", "jia">>, <<"Compensatory Leave">>>>,
    <<(* 小年夜 *) <<"xiao", "nian_year", "ye">>,
      <<"Lunar New Year's Eve Eve">>>>,
    <<(* 農曆除夕 *) <<"nong", "li", "chu", "xi">>, <<"Lunar New Year's Eve">>>>,
    <<(* 春節 *) <<"chun", "jie_festival">>, <<"Lunar New Year">>>>,
    <<(* 調整上班 *) <<"tiao", "zheng", "shang", "ban">>, <<"Make-up Workday">>>>,
    <<(* 補行上班 *) <<"bu", "xing_go", "shang", "ban">>, <<"Make-up Workday">>>>,
    <<(* 調整放假 *) <<"tiao", "zheng", "fang", "jia">>, <<"Adjusted Holiday">>>>,
    <<(* 放假 *) <<"fang", "jia">>, <<"Holiday">>>>,
    <<(* 和平紀念日 *) <<"he", "ping", "ji_record", "nian_recall", "ri">>,
      <<"Peace Memorial Day">>>>,
    <<(* 兒童節及民族掃墓節 *)
      <<"er_child", "tong", "jie_festival", "ji_and", "min", "zu", "sao", "mu",
        "jie_festival">>,
      <<"Children's Day & Tomb Sweeping Day">>>>,
    <<(* 兒童節 *) <<"er_child", "tong", "jie_festival">>, <<"Children's Day">>>>,
    <<(* 民族掃墓節 *) <<"min", "zu", "sao", "mu", "jie_festival">>,
      <<"Tomb Sweeping Day">>>>,
    <<(* 端午節 *) <<"duan", "wu_noon", "jie_festival">>,
      <<"Dragon Boat Festival">>>>,
    <<(* 中秋節 *) <<"zhong", "qiu", "jie_festival">>, <<"Mid-Autumn Festival">>>>,
    <<(* 國慶日 *) <<"guo", "qing", "ri">>, <<"National Day">>>>,
    <<(* 彈性放假 *) <<"tan", "xing_nature", "fang", "jia">>,
      <<"Flexible Holiday">>>>,
    <<(* 孔子誕辰紀念日 *)
      <<"kong", "zi", "dan", "chen", "ji_record", "nian_recall", "ri">>,
      <<"Confucius Birthday">>>>,
    <<(* 臺灣光復暨金門古寧頭大捷紀念日 *)
      <<"tai", "wan", "guang", "fu", "ji_with", "jin", "men", "gu", "ning",
        "tou", "da", "jie_victory", "ji_record", "nian_recall", "ri">>,
      <<"Taiwan Retrocession Day">>>>,
    <<(* 臺灣光復節 *) <<"tai", "wan", "guang", "fu", "jie_festival">>,
      <<"Taiwan Retrocession Day">>>>,
    <<(* 行憲紀念日 *) <<"xing_go", "xian", "ji_record", "nian_recall", "ri">>,
      <<"Constitution Day">>>> >>

WEEK_EN_MAP ==
    (<<"ri">> :> <<"Sun">>) @@ (<<"yi">> :> <<"Mon">>)
    @@ (<<"er_two">> :> <<"Tue">>) @@ (<<"san">> :> <<"Wed">>)
    @@ (<<"si">> :> <<"Thu">>) @@ (<<"wu_five">> :> <<"Fri">>)
    @@ (<<"liu">> :> <<"Sat">>)

\* generate_holidays_only without the test of the description.
generate_holidays_any_description(data) ==
    SelectSeq(data, LAMBDA d : d.isHoliday)

\* [d for d in data if d["isHoliday"] and d["description"]]
generate_holidays_only(data) ==
    SelectSeq(data, LAMBDA d : d.isHoliday /\ d.description # <<>>)

\* 調整上班, 補行上班, 補班
workday_keywords ==
    <<  <<"tiao", "zheng", "shang", "ban">>,
        <<"bu", "xing_go", "shang", "ban">>,
        <<"bu", "ban">> >>

generate_workdays(data) ==
    SelectSeq(data, LAMBDA d :
        /\ ~d.isHoliday
        /\ \E k \in 1..Len(workday_keywords) :
                Contains(workday_keywords[k], d.description))

\* HOLIDAY_EN_MAP.get(description, description)
exact_match(description) ==
    IF \E i \in 1..Len(HOLIDAY_EN_MAP) : HOLIDAY_EN_MAP[i][1] = description
    THEN LET i == CHOOSE j \in 1..Len(HOLIDAY_EN_MAP) :
                        HOLIDAY_EN_MAP[j][1] = description
         IN  HOLIDAY_EN_MAP[i][2]
    ELSE description

\* partial_match without the break: the last matching entry decides.
RECURSIVE partial_match_last(_, _, _)
partial_match_last(description, desc_en, i) ==
    IF i > Len(HOLIDAY_EN_MAP) THEN desc_en
    ELSE partial_match_last(
            description,
            IF Contains(HOLIDAY_EN_MAP[i][1], description)
            THEN HOLIDAY_EN_MAP[i][2]
            ELSE desc_en,
            i + 1)

\* for zh, en in HOLIDAY_EN_MAP.items(): if zh in description: ...; break
\* from entry i on; desc_en keeps its value when the loop finds nothing.
RECURSIVE partial_match(_, _, _)
partial_match(description, desc_en, i) ==
    IF i > Len(HOLIDAY_EN_MAP) THEN desc_en
    ELSE IF Contains(HOLIDAY_EN_MAP[i][1], description)
    THEN HOLIDAY_EN_MAP[i][2]
    ELSE partial_match(description, desc_en, i + 1)

\* The translated description of one record.
desc_en_of(description) ==
    LET desc_en == exact_match(description)
    IN  IF desc_en = description /\ description # <<>>
        THEN partial_match(description, desc_en, 1)
        ELSE desc_en

RECURSIVE translate_to_english(_)
translate_to_english(data) ==
    IF data = <<>> THEN <<>>
    ELSE LET d == Head(data)
         IN  << [date |-> d.date,
                 week |-> Get(WEEK_EN_MAP, d.week, d.week),
                 isHoliday |-> d.isHoliday,
                 description |-> desc_en_of(d.description)] >>
             \o translate_to_english(Tail(data))

-----------------------------------------------------------------------------
(* The Source Lister: the loop of get_csv_urls over result.distribution.   *)

\* ad_year = roc_year + 1911
RocOffset == 1911

\* The regular expression looks for this many digits before 年.
YearDigits == 3

Digits == <<"0", "1", "2", "3", "4", "5", "6", "7", "8", "9">>

IsDigit(c) == \E v \in 1..Len(Digits) : Digits[v] = c

DigitValue(c) == (CHOOSE v \in 1..Len(Digits) : Digits[v] = c) - 1

Lower == <<"a", "b", "c", "d", "e", "f", "g", "h", "i", "j", "k", "l", "m",
           "n", "o", "p", "q", "r", "s", "t", "u", "v", "w", "x", "y", "z">>

Upper == <<"A", "B", "C", "D", "E", "F", "G", "H", "I", "J", "K", "L", "M",
           "N", "O", "P", "Q", "R", "S", "T", "U", "V", "W", "X", "Y", "Z">>

\* s.upper()
upper(s) ==
    [j \in 1..Len(s) |->
        IF \E v \in 1..Len(Lower) : Lower[v] = s[j]
        THEN Upper[CHOOSE v \in 1..Len(Lower) : Lower[v] = s[j]]
        ELSE s[j]]

\* int(digits)
RECURSIVE int(_)
int(digits) ==
    IF digits = <<>> THEN 0
    ELSE 10 * int(SubSeq(digits, 1, Len(digits) - 1))
         + DigitValue(digits[Len(digits)])

\* Whether (\d{3})年 matches at position i of name.
matches_at(name, i) ==
    /\ i + YearDigits <= Len(name)
    /\ \A j \in i..(i + YearDigits - 1) : IsDigit(name[j])
    /\ name[i + YearDigits] = "nian_year"

\* re.search(r"(\d{3})年", name): the leftmost match's group 1, or None.
re_search(name) ==
    IF \E i \in 1..Len(name) : matches_at(name, i)
    THEN LET i == CHOOSE m \in 1..Len(name) :
                    /\ matches_at(name, m)
                    /\ \A n \in 1..(m - 1) : ~matches_at(name, n)
         IN  SubSeq(name, i, i + YearDigits - 1)
    ELSE None

\* Whether the loop body skips dist before looking for the year.
skipped(dist) ==
    \/ upper(Get(dist, "resourceFormat", <<>>)) # <<"C", "S", "V">>
    \/ Get(dist, "resourceDownloadUrl", "") = ""
    \/ Contains(<<"G", "o", "o", "g", "l", "e">>,
                Get(dist, "resourceDescription", <<>>))

\* list_step keeping the first URL of a year (setdefault for assignment).
list_step_first_wins(urls, dist) ==
    IF skipped(dist) THEN urls
    ELSE LET match == re_search(Get(dist, "resourceDescription", <<>>))
         IN  IF match = None THEN urls
             ELSE urls
                  @@ ((int(match) + RocOffset) :> dist["resourceDownloadUrl"])

\* One iteration of the loop: csv_urls after dist.
list_step(urls, dist) ==
    IF skipped(dist) THEN urls
    ELSE LET match == re_search(Get(dist, "resourceDescription", <<>>))
         IN  IF match = None THEN urls
             ELSE ((int(match) + RocOffset) :> dist["resourceDownloadUrl"])
                  @@ urls

RECURSIVE list_loop(_, _)
list_loop(urls, dists) ==
    IF dists = <<>> THEN urls
    ELSE list_loop(list_step(urls, Head(dists)), Tail(dists))

\* csv_urls = {} ... return csv_urls
get_csv_urls(dists) == list_loop(<<>>, dists)

-----------------------------------------------------------------------------
(* The Writer and the Orchestrator: save_json, process_year, main.         *)

\* The five files of a year, in the order process_year saves them:
\* <year>.json, <year>/holidays.json, <year>/makeup-workdays.json,
\* <year>/calendar-en.json, <year>/holidays-en.json.
FileOrder == <<"calendar", "holidays", "makeup-workdays", "calendar-en",
               "holidays-en">>

\* A file of the output directory: missing, left by an earlier run, written
\* whole by this run, or opened for writing by this run and not finished.
Absent == [state |-> "absent", data |-> <<>>]
Old == [state |-> "old", data |-> <<>>]
Written(data) == [state |-> "written", data |-> data]
Partial == [state |-> "partial", data |-> <<>>]

\* sorted(csv_urls.keys())
RECURSIVE sorted(_)
sorted(S) ==
    IF S = {} THEN <<>>
    ELSE LET least == CHOOSE x \in S : \A y \in S : x <= y
         IN  <<least>> \o sorted(S \ {least})

\* process_year without its early return.
has_data_always(data) == TRUE

\* if not json_data: ... return
has_data(data) == data # <<>>

\* The data of the step-th save_json call of process_year.
view(k, data, holidays) ==
    CASE k = 1 -> data
      [] k = 2 -> generate_holidays_only(data)
      [] k = 3 -> generate_workdays(data)
      [] k = 4 -> translate_to_english(data)
      [] k = 5 -> translate_to_english(holidays)

\* The inner handler re-raising: the failure of a year ends the run.
year_failed_aborts(stage, disk) ==
    /\ log' = Append(log, [year |-> year, stage |-> stage])
    /\ pc' = "raised"
    /\ files' = disk

\* The inner handler removing the files of the year that failed.
year_failed_cleans_up(stage, disk) ==
    /\ log' = Append(log, [year |-> year, stage |-> stage])
    /\ pc' = "loop"
    /\ files' = [p \in DOMAIN disk |-> IF p[1] = year THEN Absent ELSE disk[p]]

\* main's inner handler: except Exception as e: print(...), and the loop
\* goes on.  disk is the output directory as the failed step left it.
year_failed(stage, disk) ==
    /\ log' = Append(log, [year |-> year, stage |-> stage])
    /\ pc' = "loop"
    /\ files' = disk

\* The outer handler without its raise: main returns as after a good run.
lister_failed_swallowed(reason) ==
    /\ log' = Append(log, [year |-> 0, stage |-> "fatal"])
    /\ pc' = "done"

\* main's outer handler: except Exception as e: print(...); raise
lister_failed(reason) ==
    /\ log' = Append(log, [year |-> 0, stage |-> "fatal"])
    /\ pc' = "raised"

\* csv_urls = get_csv_urls(), its answer parsed and its loop run.
ListSources ==
    /\ pc = "start"
    /\ csv_urls' = get_csv_urls(distributions)
    /\ years' = sorted(DOMAIN csv_urls')
    /\ pc' = "loop"
    /\ UNCHANGED <<distributions, year, csv_content, json_data, holidays_only,
                   en_data, step, files, disk0, writes, attempted, log>>

\* urlopen, response.read, decode or json.loads of get_csv_urls raises.
ListSourcesFails ==
    /\ pc = "start"
    /\ \E reason \in {"unreachable", "unparsable"} : lister_failed(reason)
    /\ UNCHANGED <<distributions, csv_urls, years, year, csv_content,
                   json_data, holidays_only, en_data, step, files, disk0,
                   writes, attempted>>

\* for year in sorted(csv_urls.keys()): url = csv_urls[year]
NextYear ==
    /\ pc = "loop"
    /\ years # <<>>
    /\ year' = Head(years)
    /\ years' = Tail(years)
    /\ attempted' = Append(attempted, Head(years))
    /\ pc' = "download"
    /\ UNCHANGED <<distributions, csv_urls, csv_content, json_data,
                   holidays_only, en_data, step, files, disk0, writes, log>>

\* The loop is over: the closing banner, and main returns.
Finish ==
    /\ pc = "loop"
    /\ years = <<>>
    /\ pc' = "done"
    /\ UNCHANGED <<distributions, csv_urls, years, year, csv_content,
                   json_data, holidays_only, en_data, step, files, disk0,
                   writes, attempted, log>>

-----------------------------------------------------------------------------
(* The inputs of the specifications.                                       *)

\* The most lines of a CSV, and the most resource descriptors of an answer.
MaxRows == 2
MaxDists == 3

\* All sequences over S of length at most n.
RECURSIVE SeqsUpTo(_, _)
SeqsUpTo(S, n) ==
    IF n = 0 THEN {<<>>}
    ELSE LET shorter == SeqsUpTo(S, n - 1)
         IN  shorter \cup {Append(q, x) : q \in shorter, x \in S}

\* The two header naming schemes, and a header of neither.
HeaderZh == <<"xiyuan_riqi", "xingqi", "shifou_fangjia", "beizhu">>
HeaderEn == <<"date", "week", "isHoliday", "description">>
HeaderOther == <<"Date", "Week", "Holiday", "Memo">>

KaiGuoJiNianRi == HOLIDAY_EN_MAP[1][1]

\* Date fields: 20240101, 2024/01/01, 2024-01-01, 2024-01/01, 113/01/01,
\* 1130101, 2024/01/0x, 2024/1/1, the empty field, and 20240101 after a blank.
DateFields == {
    <<"2", "0", "2", "4", "0", "1", "0", "1">>,
    <<"2", "0", "2", "4", "/", "0", "1", "/", "0", "1">>,
    <<"2", "0", "2", "4", "-", "0", "1", "-", "0", "1">>,
    <<"2", "0", "2", "4", "-", "0", "1", "/", "0", "1">>,
    <<"1", "1", "3", "/", "0", "1", "/", "0", "1">>,
    <<"1", "1", "3", "0", "1", "0", "1">>,
    <<"2", "0", "2", "4", "/", "0", "1", "/", "0", "x">>,
    <<"2", "0", "2", "4", "/", "1", "/", "1">>,
    <<>>,
    <<" ", "2", "0", "2", "4", "0", "1", "0", "1">> }

\* Holiday flags: 2, 是, true, True, 1, 0, 否, false, False, 3, the empty
\* field, TRUE, and 2 between blanks.
FlagFields == {
    <<"2">>, <<"shi">>, <<"t", "r", "u", "e">>, <<"T", "r", "u", "e">>,
    <<"1">>, <<"0">>, <<"fou">>, <<"f", "a", "l", "s", "e">>,
    <<"F", "a", "l", "s", "e">>, <<"3">>, <<>>, <<"T", "R", "U", "E">>,
    <<" ", "2", " ">> }

\* Descriptions: none, 開國紀念日, 春節補假, 調整放假, 中秋節調整放假, 軍人節,
\* 補行上班, 補班, and 國慶日 between blanks.
DescFields == {
    <<>>,
    KaiGuoJiNianRi,
    <<"chun", "jie_festival", "bu", "jia">>,
    <<"tiao", "zheng", "fang", "jia">>,
    <<"zhong", "qiu", "jie_festival", "tiao", "zheng", "fang", "jia">>,
    <<"jun", "ren", "jie_festival">>,
    <<"bu", "xing_go", "shang", "ban">>,
    <<"bu", "ban">>,
    <<" ", "guo", "qing", "ri", " ">> }

\* The lines of the Normalizer's inputs: every date field, every flag, and
\* a line cut short after its date.
NormalizerLines ==
    {<<d, <<"1">>, <<"2">>, KaiGuoJiNianRi>> : d \in DateFields}
    \cup {<<<<"2", "0", "2", "4", "0", "1", "0", "2">>, <<"er_two">>, f, <<>>>> :
            f \in FlagFields}
    \cup {<< <<"2", "0", "2", "4", "0", "1", "0", "3">> >>}

\* The lines of the Derivers' inputs: every description, on a day off and on
\* a working day.
DeriverLines ==
    {<<<<"2", "0", "2", "4", "0", "2", "1", "0">>, <<"6">>, f, x>> :
        f \in {<<"2">>, <<"0">>}, x \in DescFields}

NormalizerInputs ==
    {[header |-> h, lines |-> l] :
        h \in {HeaderZh, HeaderEn, HeaderOther},
        l \in SeqsUpTo(NormalizerLines, MaxRows)}

DeriverInputs ==
    {[header |-> HeaderZh, lines |-> l] : l \in SeqsUpTo(DeriverLines, MaxRows)}

\* Resource descriptions: 113年, 114年, Google113年, google113年, 1130年,
\* 曆 (no year), 12年, 113年114年.
N113 == <<"1", "1", "3", "nian_year">>
N114 == <<"1", "1", "4", "nian_year">>

Csv == <<"C", "S", "V">>

Descriptor(format, description, url) ==
    [resourceFormat |-> format, resourceDescription |-> description,
     resourceDownloadUrl |-> url]

ListerDescriptors == {
    Descriptor(Csv, N113, "u1"),
    Descriptor(<<"c", "s", "v">>, N113, "u2"),
    Descriptor(<<"J", "S", "O", "N">>, N113, "u3"),
    Descriptor(Csv, N114, "u4"),
    Descriptor(Csv, <<"G", "o", "o", "g", "l", "e">> \o N113, "u5"),
    Descriptor(Csv, <<"g", "o", "o", "g", "l", "e">> \o N113, "u6"),
    Descriptor(Csv, <<"1", "1", "3", "0", "nian_year">>, "u7"),
    Descriptor(Csv, <<"li">>, "u8"),
    Descriptor(Csv, <<"1", "2", "nian_year">>, "u9"),
    Descriptor(Csv, N113 \o N114, "u10"),
    Descriptor(Csv, N113, ""),
    [resourceFormat |-> Csv] }

ListerInputs == SeqsUpTo(ListerDescriptors, MaxDists)

\* The answers of the metadata API a whole run is checked on: no CSV of a
\* year, one year, two years out of order, and a year listed twice.
ApiAnswers == {
    <<Descriptor(Csv, <<"G", "o", "o", "g", "l", "e">> \o N113, "u5")>>,
    <<Descriptor(Csv, N113, "u1")>>,
    <<Descriptor(Csv, N114, "u4"), Descriptor(Csv, N113, "u1")>>,
    <<Descriptor(Csv, N113, "u1"), Descriptor(Csv, N114, "u4"),
      Descriptor(<<"c", "s", "v">>, N113, "u2")>> }

\* The CSVs a download of a whole run may return: two days under the
\* localized header, one under the anglicized one, dates of the wrong
\* length only, a header of neither scheme, and a header with no line.
CsvSamples == {
    [header |-> HeaderZh,
     lines |-> << <<<<"2", "0", "2", "4", "0", "1", "0", "1">>, <<"1">>, <<"2">>,
                    KaiGuoJiNianRi>>,
                  <<<<"2", "0", "2", "4", "0", "2", "1", "7">>, <<"6">>, <<"0">>,
                    <<"bu", "xing_go", "shang", "ban">>>> >>],
    [header |-> HeaderEn,
     lines |-> << <<<<"2", "0", "2", "5", "-", "0", "1", "-", "0", "4">>,
                    <<"liu">>, <<"shi">>, <<>>>> >>],
    [header |-> HeaderZh,
     lines |-> << <<<<"1", "1", "3", "/", "0", "1", "/", "0", "1">>, <<"1">>,
                    <<"2">>, KaiGuoJiNianRi>> >>],
    [header |-> HeaderOther,
     lines |-> << <<<<"2", "0", "2", "4", "0", "1", "0", "1">>, <<"1">>, <<"2">>,
                    KaiGuoJiNianRi>> >>],
    [header |-> HeaderZh, lines |-> <<>>] }

\* The years and the paths a whole run can write.
OutputYears == UNION {DOMAIN get_csv_urls(a) : a \in ApiAnswers}
Paths == OutputYears \X {FileOrder[k] : k \in 1..Len(FileOrder)}

\* The output directory before a run: each year's files all there from an
\* earlier run, or none of them.
DiskStates ==
    {[p \in Paths |-> IF p[1] \in S THEN Old ELSE Absent] :
        S \in SUBSET OutputYears}

-----------------------------------------------------------------------------
(* The rest of main's loop body.                                           *)

\* csv_content = download_csv(url): the request answers and one of the
\* encodings decodes it.
Download ==
    /\ pc = "download"
    /\ \E content \in CsvSamples : csv_content' = content
    /\ pc' = "process"
    /\ UNCHANGED <<distributions, csv_urls, years, year, json_data,
                   holidays_only, en_data, step, files, disk0, writes,
                   attempted, log>>

\* download_csv raises: urlopen or read fails, or no encoding decodes.
DownloadFails ==
    /\ pc = "download"
    /\ \E stage \in {"download", "decode"} : year_failed(stage, files)
    /\ UNCHANGED <<distributions, csv_urls, years, year, csv_content,
                   json_data, holidays_only, en_data, step, disk0, writes,
                   attempted>>

\* process_year up to its first save_json: the conversion, and the return
\* with a warning when it yields nothing.
Convert ==
    /\ pc = "process"
    /\ json_data' = convert_csv_to_json(csv_content)
    /\ IF has_data(json_data')
       THEN /\ pc' = "save"
            /\ step' = 1
            /\ log' = log
       ELSE /\ pc' = "loop"
            /\ step' = step
            /\ log' = Append(log, [year |-> year, stage |-> "empty"])
    /\ UNCHANGED <<distributions, csv_urls, years, year, csv_content,
                   holidays_only, en_data, files, disk0, writes, attempted>>

\* convert_csv_to_json raises (csv.Error on malformed content).
ConvertFails ==
    /\ pc = "process"
    /\ year_failed("convert", files)
    /\ UNCHANGED <<distributions, csv_urls, years, year, csv_content,
                   json_data, holidays_only, en_data, step, disk0, writes,
                   attempted>>

\* One of the five numbered steps of process_year: the view is derived and
\* save_json writes it.
SaveJson ==
    /\ pc = "save"
    /\ LET data == view(step, json_data, holidays_only)
       IN  /\ files' = [files EXCEPT ![<<year, FileOrder[step]>>] = Written(data)]
           /\ holidays_only' = IF step = 2 THEN data ELSE holidays_only
           /\ en_data' = IF step = 4 THEN data ELSE en_data
    /\ writes' = Append(writes, <<year, FileOrder[step]>>)
    /\ IF step = Len(FileOrder)
       THEN pc' = "loop" /\ step' = step
       ELSE pc' = "save" /\ step' = step + 1
    /\ UNCHANGED <<distributions, csv_urls, years, year, csv_content,
                   json_data, disk0, attempted, log>>

\* A step of process_year raises before its file is opened: deriving the
\* view, mkdir or open fails.
SaveFails ==
    /\ pc = "save"
    /\ \E stage \in {"derive", "write"} : year_failed(stage, files)
    /\ UNCHANGED <<distributions, csv_urls, years, year, csv_content,
                   json_data, holidays_only, en_data, step, disk0, writes,
                   attempted>>

\* json.dump raises after open truncated the file: the write is not atomic.
SaveBreaks ==
    /\ pc = "save"
    /\ writes' = Append(writes, <<year, FileOrder[step]>>)
    /\ year_failed("write",
                   [files EXCEPT ![<<year, FileOrder[step]>>] = Partial])
    /\ UNCHANGED <<distributions, csv_urls, years, year, csv_content,
                   json_data, holidays_only, en_data, step, disk0, attempted>>

\* The state of a run before main is called.
Init ==
    /\ pc = "start"
    /\ distributions \in ApiAnswers
    /\ csv_urls = <<>>
    /\ years = <<>>
    /\ year = 0
    /\ csv_content = [header |-> <<>>, lines |-> <<>>]
    /\ json_data = <<>>
    /\ holidays_only = <<>>
    /\ en_data = <<>>
    /\ step = 0
    /\ disk0 \in DiskStates
    /\ files = disk0
    /\ writes = <<>>
    /\ attempted = <<>>
    /\ log = <<>>

Next ==
    \/ ListSources
    \/ ListSourcesFails
    \/ NextYear
    \/ Download
    \/ DownloadFails
    \/ Convert
    \/ ConvertFails
    \/ SaveJson
    \/ SaveFails
    \/ SaveBreaks
    \/ Finish

Spec == Init /\ [][Next]_vars

-----------------------------------------------------------------------------
(* The pure functions, each applied to inputs drawn by the initial state.  *)

Quiet ==
    /\ csv_urls = <<>>
    /\ years = <<>>
    /\ year = 0
    /\ json_data = <<>>
    /\ holidays_only = <<>>
    /\ en_data = <<>>
    /\ step = 0
    /\ disk0 = [p \in Paths |-> Absent]
    /\ files = disk0
    /\ writes = <<>>
    /\ attempted = <<>>
    /\ log = <<>>

\* get_csv_urls on every answer of ListerInputs.
InitLister ==
    /\ pc = "start"
    /\ distributions \in ListerInputs
    /\ csv_content = [header |-> <<>>, lines |-> <<>>]
    /\ Quiet

SpecLister == InitLister /\ [][ListSources]_vars

\* json_data = convert_csv_to_json(csv_content)
Normalize ==
    /\ pc = "normalize"
    /\ json_data' = convert_csv_to_json(csv_content)
    /\ pc' = "derive"
    /\ UNCHANGED <<distributions, csv_urls, years, year, csv_content,
                   holidays_only, en_data, step, files, disk0, writes,
                   attempted, log>>

\* holidays_only = generate_holidays_only(json_data)
DeriveHolidays ==
    /\ pc = "derive"
    /\ holidays_only' = generate_holidays_only(json_data)
    /\ pc' = "translate"
    /\ UNCHANGED <<distributions, csv_urls, years, year, csv_content,
                   json_data, en_data, step, files, disk0, writes, attempted,
                   log>>

\* en_data = translate_to_english(json_data)
Translate ==
    /\ pc = "translate"
    /\ en_data' = translate_to_english(json_data)
    /\ pc' = "translated"
    /\ UNCHANGED <<distributions, csv_urls, years, year, csv_content,
                   json_data, holidays_only, step, files, disk0, writes,
                   attempted, log>>

NextPure == Normalize \/ DeriveHolidays \/ Translate

\* convert_csv_to_json on every CSV of NormalizerInputs.
InitNormalizer ==
    /\ pc = "normalize"
    /\ distributions = <<>>
    /\ csv_content \in NormalizerInputs
    /\ Quiet

SpecNormalizer == InitNormalizer /\ [][Normalize]_vars

\* The Derivers on the Year Dataset of every CSV of DeriverInputs.
InitDerivers ==
    /\ pc = "normalize"
    /\ distributions = <<>>
    /\ csv_content \in DeriverInputs
    /\ Quiet

SpecDerivers == InitDerivers /\ [][NextPure]_vars

-----------------------------------------------------------------------------
(* The properties.                                                         *)

\* The k-th smallest member of a set Q of indices.
Kth(Q, k) == CHOOSE i \in Q : Cardinality({j \in Q : j <= i}) = k

\* The members of a sequence.
Range(q) == {q[i] : i \in 1..Len(q)}

\* The rows csv.DictReader hands to the Normalizer's loop, the raw date and
\* flag of the i-th, and its date with the separators taken out.
Reader == DictReader(csv_content.header, csv_content.lines)
RawDate(i) == Get(Reader[i], "xiyuan_riqi", Get(Reader[i], "date", <<>>))
RawFlag(i) == Get(Reader[i], "shifou_fangjia", Get(Reader[i], "isHoliday", <<>>))
Reduced(i) == SelectSeq(str(RawDate(i)), LAMBDA c : c \notin {"/", "-"})

AllDigits(q) == \A j \in 1..Len(q) : IsDigit(q[j])

EightCharRows == {i \in 1..Len(Reader) : Len(Reduced(i)) = 8}
EightDigitRows == {i \in EightCharRows : AllDigits(Reduced(i))}

Normalized == pc \in {"derive", "translate", "translated"}

Date20240101 == <<"2", "0", "2", "4", "0", "1", "0", "1">>
Date2024Slashed == <<"2", "0", "2", "4", "/", "0", "1", "/", "0", "1">>
Date113Slashed == <<"1", "1", "3", "/", "0", "1", "/", "0", "1">>

\* The order-preserving ways of pairing the records with rows.
RowMaps ==
    {f \in [1..Len(json_data) -> 1..Len(Reader)] :
        \A k, m \in 1..Len(json_data) : k < m => f[k] < f[m]}

\* C1 (as amended): convert_csv_to_json keeps the rows' order; every row
\* whose date field, with "/" and "-" removed, is exactly 8 digits yields a
\* record whose date is that digit string; every record comes from a row
\* whose reduced date field is 8 characters long and carries that reduced
\* string, so that every row whose reduced date field is not 8 characters
\* long is excluded.  In particular a row whose date field is 113/01/01
\* (which reduces to the 7 characters 1130101) yields no record, and a row
\* whose date field is 2024/01/01 yields a record dated 20240101.
C1_DateIsReducedField ==
    Normalized =>
        \E f \in RowMaps :
            /\ \A k \in 1..Len(json_data) :
                    /\ Len(Reduced(f[k])) = 8
                    /\ json_data[k].date = Reduced(f[k])
            /\ \A i \in EightDigitRows : \E k \in 1..Len(json_data) : f[k] = i
            /\ \A i \in 1..Len(Reader) :
                    /\ RawDate(i) = Date113Slashed =>
                            \A k \in 1..Len(json_data) : f[k] # i
                    /\ RawDate(i) = Date2024Slashed =>
                            \E k \in 1..Len(json_data) :
                                f[k] = i /\ json_data[k].date = Date20240101

\* C1 witness: a CSV with a 2024/01/01 row and a 113/01/01 row has been
\* converted, and the one record emitted carries the date 20240101.
C1_Witness ==
    /\ Normalized
    /\ \E i, j \in 1..Len(Reader) :
            RawDate(i) = Date2024Slashed /\ RawDate(j) = Date113Slashed
    /\ Len(json_data) = 1
    /\ json_data[1].date = Date20240101

\* C1 (as stated): the records are those of the rows whose date field reduces
\* to exactly 8 digits, each with that digit string as its date, and a row
\* whose date field is 113/01/01 yields a record dated 20240101.
C1_Original ==
    Normalized =>
        /\ Len(json_data) = Cardinality(EightDigitRows)
        /\ \A k \in 1..Len(json_data) :
                json_data[k].date = Reduced(Kth(EightDigitRows, k))
        /\ \A i \in 1..Len(Reader) :
                RawDate(i) = Date113Slashed =>
                    \E k \in 1..Len(json_data) : json_data[k].date = Date20240101

\* C2: every record convert_csv_to_json returns has a date of exactly 8
\* characters, each a decimal digit.
C2_DateIsEightDigits ==
    Normalized =>
        \A k \in 1..Len(json_data) :
            Len(json_data[k].date) = 8 /\ AllDigits(json_data[k].date)

TruthyFlags == {<<"2">>, <<"shi">>, <<"t", "r", "u", "e">>,
                <<"T", "r", "u", "e">>, <<"1">>}

\* C5 (as amended): isHoliday is true exactly when the raw flag, with
\* leading and trailing whitespace stripped, is one of "2", "是", "true",
\* "True", "1", and false for every other value; the comparison is
\* case-sensitive.
C5_FlagOfStrippedField ==
    Normalized =>
        /\ Len(json_data) = Cardinality(EightCharRows)
        /\ \A k \in 1..Len(json_data) :
                json_data[k].isHoliday
                    = (strip(str(RawFlag(Kth(EightCharRows, k)))) \in TruthyFlags)

\* C5 witness: a row flagged TRUE gave isHoliday false and a row flagged 1
\* gave isHoliday true.
C5_Witness ==
    /\ Normalized
    /\ Len(json_data) = Cardinality(EightCharRows)
    /\ \E k, m \in 1..Len(json_data) :
            /\ RawFlag(Kth(EightCharRows, k)) = <<"T", "R", "U", "E">>
            /\ ~json_data[k].isHoliday
            /\ RawFlag(Kth(EightCharRows, m)) = <<"1">>
            /\ json_data[m].isHoliday

\* C5 (as stated): isHoliday is true exactly when the raw flag is one of
\* "2", "是", "true", "True", "1".
C5_Original ==
    Normalized =>
        /\ Len(json_data) = Cardinality(EightCharRows)
        /\ \A k \in 1..Len(json_data) :
                json_data[k].isHoliday
                    = (RawFlag(Kth(EightCharRows, k)) \in TruthyFlags)

Derived == pc \in {"translate", "translated"}

HolidayRows ==
    {i \in 1..Len(json_data) :
        json_data[i].isHoliday /\ json_data[i].description # <<>>}

\* C4: generate_holidays_only returns exactly the records of its input that
\* have isHoliday true and a non-empty description, in the input's order; so
\* no record of the result has an empty description or isHoliday false.
C4_HolidaysOnlyIsTheSubsequence ==
    Derived =>
        /\ Len(holidays_only) = Cardinality(HolidayRows)
        /\ \A k \in 1..Len(holidays_only) :
                /\ holidays_only[k] = json_data[Kth(HolidayRows, k)]
                /\ holidays_only[k].isHoliday
                /\ holidays_only[k].description # <<>>

\* C4 witness: of two records, a holiday without a description and a holiday
\* with one, only the second has been kept.
C4_Witness ==
    /\ Derived
    /\ Len(json_data) = 2
    /\ json_data[1].isHoliday /\ json_data[1].description = <<>>
    /\ json_data[2].isHoliday /\ json_data[2].description # <<>>
    /\ holidays_only = <<json_data[2]>>

ExactKeys(description) ==
    {i \in 1..Len(HOLIDAY_EN_MAP) : HOLIDAY_EN_MAP[i][1] = description}

SubstringKeys(description) ==
    {i \in 1..Len(HOLIDAY_EN_MAP) :
        \E a \in 1..Len(description), b \in 1..Len(description) :
            SubSeq(description, a, b) = HOLIDAY_EN_MAP[i][1]}

ExpectedEnglish(description) ==
    IF ExactKeys(description) # {}
    THEN HOLIDAY_EN_MAP[CHOOSE i \in ExactKeys(description) : TRUE][2]
    ELSE IF description # <<>> /\ SubstringKeys(description) # {}
    THEN HOLIDAY_EN_MAP[Kth(SubstringKeys(description), 1)][2]
    ELSE description

\* C6: translate_to_english returns one record per input record, in the same
\* order, with date and isHoliday unchanged; the description is the table
\* value of the exact-match key if the description is a table key, otherwise
\* (description non-empty) the value of the first table entry, in table
\* order, whose key is a substring of the description, otherwise the
\* description unchanged.
C6_TranslationIsTotal ==
    pc = "translated" =>
        /\ Len(en_data) = Len(json_data)
        /\ \A i \in 1..Len(en_data) :
                /\ en_data[i].date = json_data[i].date
                /\ en_data[i].isHoliday = json_data[i].isHoliday
                /\ en_data[i].description
                        = ExpectedEnglish(json_data[i].description)

\* C6 witness: 春節補假, which holds the keys 補假 and 春節, has become the
\* value of 補假, the earlier of the two in the table, and 軍人節, which
\* holds no key, has stayed as it was.
C6_Witness ==
    /\ pc = "translated"
    /\ Len(json_data) = 2
    /\ json_data[1].description = <<"chun", "jie_festival", "bu", "jia">>
    /\ en_data[1].description = <<"Compensatory Leave">>
    /\ json_data[2].description = <<"jun", "ren", "jie_festival">>
    /\ en_data[2].description = json_data[2].description

\* The fields of the j-th resource descriptor, "" when it has none.
FormatOf(j) ==
    IF "resourceFormat" \in DOMAIN distributions[j]
    THEN distributions[j].resourceFormat ELSE <<>>
NameOf(j) ==
    IF "resourceDescription" \in DOMAIN distributions[j]
    THEN distributions[j].resourceDescription ELSE <<>>
UrlOf(j) ==
    IF "resourceDownloadUrl" \in DOMAIN distributions[j]
    THEN distributions[j].resourceDownloadUrl ELSE ""

\* The places of a description where three digits stand before 年.
TokenPlaces(name) ==
    {i \in 1..(Len(name) - 3) :
        /\ IsDigit(name[i]) /\ IsDigit(name[i + 1]) /\ IsDigit(name[i + 2])
        /\ name[i + 3] = "nian_year"}

\* The Gregorian year of a description's first 3-digit ROC year token.
TokenYear(name) ==
    LET i == Kth(TokenPlaces(name), 1)
    IN  100 * DigitValue(name[i]) + 10 * DigitValue(name[i + 1])
        + DigitValue(name[i + 2]) + 1911

\* The descriptors that resolve to a year: CSV format in any case, a
\* download URL, no "Google" in the description, and a year token in it.
Resolving ==
    {j \in 1..Len(distributions) :
        /\ upper(FormatOf(j)) = <<"C", "S", "V">>
        /\ UrlOf(j) # ""
        /\ \A a \in 1..(Len(NameOf(j)) - 5) :
                SubSeq(NameOf(j), a, a + 5) # <<"G", "o", "o", "g", "l", "e">>
        /\ TokenPlaces(NameOf(j)) # {}}

\* C7: get_csv_urls returns a mapping with at most one URL per Gregorian
\* year; its keys are the 3-digit ROC year tokens, plus 1911, of the CSV
\* descriptors that resolve to a year (113年 gives 2024); a descriptor whose
\* description contains "Google", or holds no year token, contributes
\* nothing; and of several descriptors resolving to one year, the URL of
\* the latest in iteration order is kept.
C7_LastDescriptorOfAYearWins ==
    pc = "loop" =>
        /\ DOMAIN csv_urls = {TokenYear(NameOf(j)) : j \in Resolving}
        /\ \A j \in Resolving :
                (\A m \in Resolving :
                    TokenYear(NameOf(m)) = TokenYear(NameOf(j)) => m <= j)
                => csv_urls[TokenYear(NameOf(j))] = UrlOf(j)
        /\ \A j \in Resolving : NameOf(j) = N113 => TokenYear(NameOf(j)) = 2024

\* C7 witness: two descriptors resolved to 2024 with different URLs, a third
\* named Google, and the mapping holds the URL of the later of the two.
C7_Witness ==
    /\ pc = "loop"
    /\ Len(distributions) = 3
    /\ Resolving = {1, 3}
    /\ Contains(<<"G", "o", "o", "g", "l", "e">>, NameOf(2))
    /\ TokenYear(NameOf(1)) = 2024 /\ TokenYear(NameOf(3)) = 2024
    /\ UrlOf(1) # UrlOf(3)
    /\ DOMAIN csv_urls = {2024}
    /\ csv_urls[2024] = UrlOf(3)

Ascending(q) == \A i, j \in 1..Len(q) : i < j => q[i] < q[j]

FatalLogged == \E i \in 1..Len(log) : log[i].stage = "fatal"

\* C3: once get_csv_urls has returned, the years of its mapping are
\* attempted in ascending order, each at most once and none skipped; the run
\* is never stuck and never raises, whatever step of a year fails; and when
\* main returns every year has been attempted exactly once.
C3_EveryYearAttemptedInOrder ==
    /\ pc = "raised" => attempted = <<>> /\ FatalLogged
    /\ pc \notin {"start", "raised"} =>
        /\ Ascending(attempted)
        /\ Range(attempted) \subseteq DOMAIN csv_urls
        /\ \A y \in DOMAIN csv_urls :
                (\E a \in Range(attempted) : y < a) => y \in Range(attempted)
        /\ pc = "done" => Range(attempted) = DOMAIN csv_urls
        /\ pc # "done" => ENABLED Next

\* C3 witness: main has returned after two years, the first of which failed
\* at some step and the second of which was written.
C3_Witness ==
    /\ pc = "done"
    /\ Len(attempted) = 2
    /\ \E i \in 1..Len(log) :
            log[i].year = attempted[1] /\ log[i].stage # "empty"
    /\ \E j \in 1..Len(writes) : writes[j][1] = attempted[2]

\* C8: when reaching or parsing the metadata API fails, the diagnostic is
\* printed and the error re-raised: the run ends raised, with no year
\* attempted and no output file written or changed.
C8_ListerFailureIsFatal ==
    /\ FatalLogged =>
        /\ pc = "raised"
        /\ attempted = <<>>
        /\ writes = <<>>
        /\ files = disk0
    /\ pc = "raised" => FatalLogged

\* C8 witness: the run has ended raised over an output directory that held
\* files of an earlier run.
C8_Witness ==
    /\ pc = "raised"
    /\ FatalLogged
    /\ \E p \in Paths : disk0[p] = Old /\ files[p] = Old

\* The kinds of the files of year y this run has opened, in order.
RECURSIVE KindsOf(_, _)
KindsOf(y, w) ==
    IF w = <<>> THEN <<>>
    ELSE (IF Head(w)[1] = y THEN <<Head(w)[2]>> ELSE <<>>) \o KindsOf(y, Tail(w))

IsPrefix(a, b) == Len(a) <= Len(b) /\ SubSeq(b, 1, Len(a)) = a

\* C9: a year whose download, decoding or conversion failed has none of
\* its five files written in this run, and they are as they were before the
\* run; no file this run did not open has changed, and every file it opened
\* is of the year that opened it, so the other years are unaffected.
C9_EarlyFailureLeavesFilesAlone ==
    /\ \A i \in 1..Len(log) :
            log[i].stage \in {"download", "decode", "convert"} =>
                /\ KindsOf(log[i].year, writes) = <<>>
                /\ \A p \in Paths : p[1] = log[i].year => files[p] = disk0[p]
    /\ \A p \in Paths :
            IF p \in Range(writes)
            THEN files[p].state \in {"written", "partial"}
            ELSE files[p] = disk0[p]

\* C9 witness: main has returned; the first year failed before its
\* conversion ended and its old files are untouched, and the second year
\* has its five files written.
C9_Witness ==
    /\ pc = "done"
    /\ Len(attempted) = 2
    /\ \E i \in 1..Len(log) :
            /\ log[i].year = attempted[1]
            /\ log[i].stage \in {"download", "decode", "convert"}
    /\ \A p \in Paths : p[1] = attempted[1] => disk0[p] = Old /\ files[p] = Old
    /\ \A p \in Paths : p[1] = attempted[2] => files[p].state = "written"

\* The years whose loop body has ended.
Finished ==
    {y \in Range(attempted) : y # year \/ pc \in {"loop", "done"}}

\* C10: a year whose CSV converts to zero records gets the warning and no
\* error, none of its five files is written, and its files on disk stay as
\* they were; process_year goes on to save_json exactly when the dataset
\* is not empty, and then opens the files in the order full calendar,
\* holidays, make-up workdays, calendar-en, holidays-en, all five when no
\* step fails.
C10_EmptyDatasetWritesNothing ==
    /\ \A i \in 1..Len(log) :
            log[i].stage = "empty" =>
                /\ KindsOf(log[i].year, writes) = <<>>
                /\ \A p \in Paths : p[1] = log[i].year => files[p] = disk0[p]
                /\ \A j \in 1..Len(log) : log[j].year = log[i].year => j = i
    /\ pc = "save" =>
            /\ json_data = convert_csv_to_json(csv_content)
            /\ json_data # <<>>
    /\ (\E i \in 1..Len(log) : log[i] = [year |-> year, stage |-> "empty"]) =>
            convert_csv_to_json(csv_content) = <<>>
    /\ \A y \in OutputYears : IsPrefix(KindsOf(y, writes), FileOrder)
    /\ \A y \in Finished :
            (\A i \in 1..Len(log) : log[i].year # y) =>
                KindsOf(y, writes) = FileOrder

\* C10 witness: main has returned; one year's CSV held only dates of the
\* wrong length, so its old files are untouched, and the other year has its
\* five files written in order.
C10_Witness ==
    /\ pc = "done"
    /\ \E i \in 1..Len(log), z \in OutputYears :
            /\ log[i].stage = "empty"
            /\ \A p \in Paths :
                    p[1] = log[i].year => disk0[p] = Old /\ files[p] = Old
            /\ KindsOf(z, writes) = FileOrder

=============================================================================
